---- MODULE Spec2Model ----
(***************************************************************************)
(* The conversation lifecycle of app/backend/server.py: the two document   *)
(* collections (conversations, messages), and the request handlers as      *)
(* processes that take one atomic step per `await` (the store or gateway   *)
(* effect of the awaited call, followed by the handler's synchronous code  *)
(* up to its next await).  Handlers of different requests interleave at    *)
(* their awaits, as they do on the asyncio event loop.                     *)
(*                                                                         *)
(* Texts (str) are sequences of string fragments, so that an f-string or   *)
(* a join is a concatenation.  Optional values are <<>> (None) or <<x>>.   *)
(***************************************************************************)
EXTENDS Integers, Sequences, FiniteSets, TLC

\* ------------------------------------------------------------------ bounds
\* Number of requests the clients issue in one behaviour.
MaxReqs == 2
MaxCalls == 1
\* Longest conversation history handed to generate_suggestions directly.
MaxTurns == 4

Reqs == 1 .. MaxReqs

\* ------------------------------------------------------------ input domains
Titles == { <<"Demo">> }
Contents == { <<"Hello">> }
Symbols == { "thumbsup", "heart" }
\* ExportRequest.format: the three the handler knows, and one it does not.
Formats == { "json", "markdown", "pdf", "xml" }
Queries == { << "What did we discuss?" >> }
\* What the LLM gateway does with one send_message call: it returns a text
\* or raises an exception whose str() is the text.
GatewayOutcomes ==
    { [ok |-> TRUE, text |-> <<"generated text">>],
      [ok |-> FALSE, text |-> <<"gateway unreachable">>] }

None == << >>
Some(x) == << x >>

\* ------------------------------------------------------------- timestamps
\* An instant is a number of half seconds; datetime.isoformat() renders the
\* minutes and the seconds, then the microseconds only when they are not
\* zero, then the UTC offset.  (The date and hour prefix is the same for all
\* instants here.)
Digit(n) == CASE n = 0 -> "0" [] n = 1 -> "1" [] n = 2 -> "2" [] n = 3 -> "3"
              [] n = 4 -> "4" [] n = 5 -> "5" [] n = 6 -> "6" [] n = 7 -> "7"
              [] n = 8 -> "8" [] n = 9 -> "9"

Ord(ch) == CASE ch = "+" -> 43 [] ch = "." -> 46 [] ch = "0" -> 48
             [] ch = "1" -> 49 [] ch = "2" -> 50 [] ch = "3" -> 51
             [] ch = "4" -> 52 [] ch = "5" -> 53 [] ch = "6" -> 54
             [] ch = "7" -> 55 [] ch = "8" -> 56 [] ch = "9" -> 57
             [] ch = ":" -> 58

isoformat(t) ==
    LET min == (t \div 2) \div 60
        sec == (t \div 2) % 60
        half == t % 2
    IN  << Digit(min \div 10), Digit(min % 10), ":",
           Digit(sec \div 10), Digit(sec % 10) >>
        \o (IF half = 0 THEN << >> ELSE << ".", "5", "0", "0", "0", "0", "0" >>)
        \o << "+", "0", "0", ":", "0", "0" >>

DigitValue(ch) == Ord(ch) - 48

fromisoformat(s) ==
    LET min == 10 * DigitValue(s[1]) + DigitValue(s[2])
        sec == 60 * min + 10 * DigitValue(s[4]) + DigitValue(s[5])
    IN  IF s[6] = "." THEN 2 * sec + (IF DigitValue(s[7]) >= 5 THEN 1 ELSE 0)
        ELSE 2 * sec

\* Python's str.__lt__: lexicographic by code point.  a < b when, at the
\* first position where they differ, a has ended or has the smaller character.
StrLess(a, b) ==
    \E k \in 1 .. Len(b) :
        /\ \A j \in 1 .. (k - 1) : j <= Len(a) /\ a[j] = b[j]
        /\ (k > Len(a) \/ (a[k] # b[k] /\ Ord(a[k]) < Ord(b[k])))

\* sorted(docs, key=...) and list.sort(key=...) are stable: a document comes
\* after the documents with a smaller key and after the earlier documents
\* with an equal key.  StableRank is the position that gives document i,
\* smaller and equal being the positions of the documents with a smaller and
\* with an equal key; StableSorted places each document at its rank.
StableRank(i, smaller, equal) ==
    1 + Cardinality(smaller) + Cardinality({ j \in equal : j < i })

StableSorted(docs, rank) ==
    [ p \in 1 .. Len(docs) |-> docs[CHOOSE i \in 1 .. Len(docs) : rank[i] = p] ]

\* sorted(messages, key=lambda x: x['timestamp']) on the stored ISO strings.
SortedByIso(docs) ==
    LET n == Len(docs)
        Keys == [ i \in 1 .. n |-> isoformat(docs[i].timestamp) ]
        Ranks(key) ==
            [ i \in 1 .. n |->
                StableRank(i, { j \in 1 .. n : \E a \in { key[j] } :
                                                \E b \in { key[i] } : StrLess(a, b) },
                           { j \in 1 .. n : key[j] = key[i] }) ]
    IN  CHOOSE sorted \in
            { StableSorted(docs, rank) :
                rank \in { Ranks(key) : key \in { Keys } } } : TRUE

\* The read handlers without their sort: the documents as the store gave them.
SortedByTime_store_order(docs) == docs

\* msg['timestamp'] = datetime.fromisoformat(msg['timestamp']) for each
\* document, then messages.sort(key=lambda x: x['timestamp']) on the datetimes.
SortedByTime(docs) ==
    LET n == Len(docs)
        Keys == [ i \in 1 .. n |-> fromisoformat(isoformat(docs[i].timestamp)) ]
        Ranks(key) ==
            [ i \in 1 .. n |->
                StableRank(i, { j \in 1 .. n : key[j] < key[i] },
                           { j \in 1 .. n : key[j] = key[i] }) ]
    IN  CHOOSE sorted \in
            { StableSorted(docs, rank) :
                rank \in { Ranks(key) : key \in { Keys } } } : TRUE

\* ------------------------------------------------------------------ state
VARIABLES
    conversations,  \* db.conversations: the documents, in store order
    messages,       \* db.messages: the documents, in store order
    clock,          \* the instant datetime.now() last returned
    nextUuid,       \* number of uuid4() values drawn so far
    req             \* the requests: handler position and locals of each

vars == << conversations, messages, clock, nextUuid, req >>

\* datetime.now(timezone.utc): two reads of the clock are always separated by
\* an await on the store or the gateway, and the later read returns the later
\* instant.
Now == { clock + 1 }

\* ---------------------------------------------------------------- documents
Conversation(id, title, t) ==
    [ id |-> id, title |-> title, status |-> "active", summary |-> None,
      start_time |-> t, end_time |-> None, share_token |-> None ]

\* A Message that takes the model's role default for every message.
Message_one_role(id, conversation_id, role, content, t) ==
    [ id |-> id, conversation_id |-> conversation_id, role |-> "user",
      content |-> content, timestamp |-> t, reactions |-> << >>,
      bookmarked |-> FALSE ]

Message(id, conversation_id, role, content, t) ==
    [ id |-> id, conversation_id |-> conversation_id, role |-> role,
      content |-> content, timestamp |-> t, reactions |-> << >>,
      bookmarked |-> FALSE ]

\* ---------------------------------------------------------------- the store
\* A find_one that falls back on the first document of the collection.
find_one_or_first(coll, id) ==
    LET hits == SelectSeq(coll, LAMBDA d : d.id = id)
    IN  IF hits # << >> THEN Some(Head(hits))
        ELSE IF coll # << >> THEN Some(Head(coll)) ELSE None

\* find_one({"id": id}): the first matching document, or None.
find_one(coll, id) ==
    LET hits == SelectSeq(coll, LAMBDA d : d.id = id)
    IN  IF hits = << >> THEN None ELSE Some(Head(hits))

\* cursor.to_list(1000): at most the first 1000 documents of the cursor.
ToListLength == 1000

to_list(cursor) ==
    IF Len(cursor) <= ToListLength THEN cursor ELSE SubSeq(cursor, 1, ToListLength)

\* find({"conversation_id": cid}).to_list(1000)
find_messages(cid) ==
    to_list(SelectSeq(messages, LAMBDA d : d.conversation_id = cid))

\* find_one({"share_token": token}): the first conversation carrying the token.
find_one_shared(token) ==
    LET hits == SelectSeq(conversations, LAMBDA d : d.share_token = Some(token))
    IN  IF hits = << >> THEN None ELSE Some(Head(hits))

\* find({"status": "ended"}).to_list(1000)
find_ended ==
    to_list(SelectSeq(conversations, LAMBDA d : d.status = "ended"))

FirstIndex(coll, id) ==
    CHOOSE i \in 1 .. Len(coll) :
        coll[i].id = id /\ \A j \in 1 .. (i - 1) : coll[j].id # id

Has(coll, id) == \E i \in 1 .. Len(coll) : coll[i].id = id

\* An update that writes the fields to every document of the collection.
update_many(coll, id, fields) ==
    [ i \in 1 .. Len(coll) |->
        [k \in DOMAIN coll[i] |->
            IF k \in DOMAIN fields THEN fields[k] ELSE coll[i][k]] ]

\* update_one({"id": id}, {"$set": fields}): one atomic write of all the
\* fields to the first matching document; no document, no change.
update_one(coll, id, fields) ==
    IF ~Has(coll, id) THEN coll
    ELSE LET i == FirstIndex(coll, id)
         IN  [coll EXCEPT ![i] =
                [k \in DOMAIN coll[i] |->
                    IF k \in DOMAIN fields THEN fields[k] ELSE coll[i][k]]]

ConvIds == { conversations[i].id : i \in 1 .. Len(conversations) }
MsgIds == { messages[i].id : i \in 1 .. Len(messages) }
\* Identifiers a client can send: those in the store, and one that is not.
ConvArgs == ConvIds \cup { 0 }
MsgArgs == MsgIds \cup { 0 }
\* Share tokens a client can send: those some conversation carries, and one
\* that none carries.
TokenArgs ==
    { conversations[i].share_token[1] :
        i \in { j \in 1 .. Len(conversations) : conversations[j].share_token # None } }
    \cup { 0 }

\* ------------------------------------------------------------------ requests
Idle ==
    [ op |-> "none", pc |-> "idle", cid |-> 0, mid |-> 0, arg |-> << >>,
      conv |-> None, msg |-> None, lm |-> << >>, text |-> << >>, time |-> 0,
      status |-> 0, body |-> None, token |-> 0,
      \* what the handler has observed and done, kept for the properties:
      saw |-> "nothing",  \* status of the conversation its find_one returned
      failed |-> FALSE,   \* its gateway call raised
      llm |-> 0,          \* gateway calls it made
      ins |-> << >>,      \* ids of the messages it inserted, in order
      upd |-> 0,          \* update_one calls it made
      heard |-> None,     \* the text the gateway returned to it
      overlaps |-> {} ]   \* the requests in flight when it arrived

InFlight == { q \in DOMAIN req : req[q].pc \notin { "idle", "done" } }

\* A new request takes the next free slot, so slots are in arrival order.
CanStart(r) ==
    /\ req[r].pc = "idle"
    /\ \A q \in DOMAIN req : q < r => req[q].pc # "idle"

Started(r, op, cid, mid, arg) ==
    [ Idle EXCEPT !.op = op, !.cid = cid, !.mid = mid, !.arg = arg,
                  !.overlaps = InFlight ]

\* raise HTTPException(status_code=code) / return body; an exception that
\* leaves the handler is answered with status 500.
Respond(rec, code, body) ==
    [ rec EXCEPT !.pc = "done", !.status = code, !.body = body,
                 !.conv = None, !.lm = << >>, !.text = << >>, !.time = 0 ]

\* The store the server finds when it starts: empty, or left by an earlier
\* run that served create_conversation and then one complete send_message
\* (conversation 1 created at instant 1, messages 2 and 3 at instants 2, 3).
EmptyStore ==
    [ conversations |-> << >>, messages |-> << >>, clock |-> 0, nextUuid |-> 0 ]

DemoStore ==
    [ conversations |-> << Conversation(1, << "Demo" >>, 1) >>,
      messages |-> << Message(2, 1, "user", << "Hello" >>, 2),
                      Message(3, 1, "assistant", << "generated text" >>, 3) >>,
      clock |-> 3, nextUuid |-> 3 ]

Stores == { EmptyStore, DemoStore }

Init ==
    /\ \E store \in Stores :
         /\ conversations = store.conversations
         /\ messages = store.messages
         /\ clock = store.clock
         /\ nextUuid = store.nextUuid
    /\ req = [ r \in Reqs |-> Idle ]

\* ---------------------------------------------------------- create_conversation
create_conversation(r) ==
    /\ CanStart(r)
    /\ \E title \in Titles, t \in Now :
         LET conv == Conversation(nextUuid + 1, title, t)
         IN  /\ conversations' = Append(conversations, conv)
             /\ nextUuid' = nextUuid + 1
             /\ clock' = t
             /\ req' = [req EXCEPT ![r] =
                   Respond(Started(r, "create", conv.id, 0, title), 200, Some(conv))]
    /\ UNCHANGED messages

\* ------------------------------------------------------------------ call_llm
\* The prompt sent is the content of the last message of the history; the
\* result is the gateway's text, or the exception turned into a text.
call_llm_prompt(lm_messages) ==
    IF lm_messages # << >> THEN lm_messages[Len(lm_messages)].content ELSE << >>

Returned(value) == [ raised |-> FALSE, value |-> value ]
Raised(e) == [ raised |-> TRUE, value |-> e ]

\* call_llm without its except clause: the gateway's exception leaves it.
call_llm_reraises(lm_messages, outcome) ==
    IF outcome.ok THEN Returned(outcome.text) ELSE Raised(outcome.text)

\* try: return await chat.send_message(user_message)
\* except Exception as e: return f"Error generating response: {str(e)}"
call_llm(lm_messages, outcome) ==
    IF outcome.ok THEN Returned(outcome.text)
    ELSE Returned(<< "Error generating response: " >> \o outcome.text)

\* ---------------------------------------------------------------- send_message
\* [{"role": ..., "content": ...} for msg in sorted(messages, key=timestamp)]
RoleContent(docs) ==
    [ i \in 1 .. Len(docs) |-> [ role |-> docs[i].role, content |-> docs[i].content ] ]

\* send_message without a working status check.
send_rejects_nothing(conv) == conv.status = "closed"

\* if conv['status'] != 'active': raise HTTPException(400)
send_rejects(conv) == conv.status # "active"

\* find_one, the two checks, and the construction of the user message
send_message(r) ==
    /\ CanStart(r)
    /\ \E cid \in ConvArgs, content \in Contents :
         LET conv == find_one(conversations, cid)
             rec == [Started(r, "send", cid, 0, content) EXCEPT
                       !.saw = IF conv = None THEN "nothing" ELSE conv[1].status]
         IN  IF conv = None
             THEN /\ req' = [req EXCEPT ![r] = Respond(rec, 404, None)]
                  /\ UNCHANGED << clock, nextUuid >>
             ELSE IF send_rejects(conv[1])
             THEN /\ req' = [req EXCEPT ![r] = Respond(rec, 400, None)]
                  /\ UNCHANGED << clock, nextUuid >>
             ELSE \E t \in Now :
                  /\ req' = [req EXCEPT ![r] =
                        [rec EXCEPT !.pc = "send_insert_user",
                                    !.msg = Some(Message(nextUuid + 1, cid, "user", content, t))]]
                  /\ nextUuid' = nextUuid + 1
                  /\ clock' = t
    /\ UNCHANGED << conversations, messages >>

\* await db.messages.insert_one(user_doc)
send_insert_user(r) ==
    /\ req[r].pc = "send_insert_user"
    /\ messages' = Append(messages, req[r].msg[1])
    /\ req' = [req EXCEPT ![r] =
          [@ EXCEPT !.pc = "send_find", !.ins = Append(@, req[r].msg[1].id)]]
    /\ UNCHANGED << conversations, clock, nextUuid >>

\* await db.messages.find(...).to_list(1000), then lm_messages
send_find(r) ==
    /\ req[r].pc = "send_find"
    /\ \E found \in { find_messages(req[r].cid) } :
       \E lm_messages \in { RoleContent(SortedByIso(found)) } :
          req' = [req EXCEPT ![r] = [@ EXCEPT !.pc = "send_llm", !.lm = lm_messages]]
    /\ UNCHANGED << conversations, messages, clock, nextUuid >>

\* await call_llm(lm_messages, conversation_id), then the assistant message
send_llm(r) ==
    /\ req[r].pc = "send_llm"
    /\ \E outcome \in GatewayOutcomes, t \in Now :
         LET ai_response == call_llm(req[r].lm, outcome)
             rec == [req[r] EXCEPT !.llm = @ + 1, !.failed = ~outcome.ok,
                                   !.text = call_llm_prompt(req[r].lm)]
         IN  IF ai_response.raised
             THEN /\ req' = [req EXCEPT ![r] =
                        [Respond(rec, 500, None) EXCEPT !.text = rec.text]]
                  /\ UNCHANGED << clock, nextUuid >>
             ELSE /\ req' = [req EXCEPT ![r] =
                        [rec EXCEPT !.pc = "send_insert_ai", !.lm = << >>,
                                    !.msg = Some(Message(nextUuid + 1, req[r].cid,
                                                 "assistant", ai_response.value, t))]]
                  /\ nextUuid' = nextUuid + 1
                  /\ clock' = t
    /\ UNCHANGED << conversations, messages >>

\* await db.messages.insert_one(ai_doc); return ai_msg
send_insert_ai(r) ==
    /\ req[r].pc = "send_insert_ai"
    /\ messages' = Append(messages, req[r].msg[1])
    /\ req' = [req EXCEPT ![r] =
          [Respond(req[r], 200, req[r].msg) EXCEPT
              !.ins = Append(@, req[r].msg[1].id), !.text = req[r].text]]
    /\ UNCHANGED << conversations, clock, nextUuid >>

\* ------------------------------------------------------------ end_conversation
\* end_conversation without a working status check.
end_rejects_nothing(conv) == conv.status = "closed"

\* if conv['status'] == 'ended': raise HTTPException(400)
end_rejects(conv) == conv.status = "ended"

\* "\n".join(f"{msg['role']}: {msg['content']}" for msg in sorted(...))
conversation_text(docs) ==
    LET joined[n \in 0 .. Len(docs)] ==
            IF n = 0 THEN << >>
            ELSE joined[n - 1] \o (IF n > 1 THEN << "\n" >> ELSE << >>)
                 \o << docs[n].role, ": " >> \o docs[n].content
    IN  joined[Len(docs)]

\* The summarizer call without its except clause.
summarize_reraises(outcome) ==
    IF outcome.ok THEN Returned(outcome.text) ELSE Raised(outcome.text)

\* try: summary = await chat.send_message(prompt)
\* except Exception as e: summary = f"Error generating summary: {str(e)}"
summarize(outcome) ==
    IF outcome.ok THEN Returned(outcome.text)
    ELSE Returned(<< "Error generating summary: " >> \o outcome.text)

\* The $set of end_conversation without the end_time.
end_set_without_time(summary, end_time) ==
    [ status |-> "ended", summary |-> Some(summary) ]

\* The $set of end_conversation writing a status that is none of the two.
end_set_closed(summary, end_time) ==
    [ status |-> "closed", summary |-> Some(summary), end_time |-> Some(end_time) ]

\* {"$set": {"status": "ended", "summary": summary, "end_time": end_time}}
end_set(summary, end_time) ==
    [ status |-> "ended", summary |-> Some(summary), end_time |-> Some(end_time) ]

end_conversation(r) ==
    /\ CanStart(r)
    /\ \E cid \in ConvArgs :
         LET conv == find_one(conversations, cid)
             rec == [Started(r, "end", cid, 0, << >>) EXCEPT
                       !.saw = IF conv = None THEN "nothing" ELSE conv[1].status]
         IN  req' = [req EXCEPT ![r] =
                IF conv = None THEN Respond(rec, 404, None)
                ELSE IF end_rejects(conv[1]) THEN Respond(rec, 400, None)
                ELSE [rec EXCEPT !.pc = "end_find", !.conv = conv]]
    /\ UNCHANGED << conversations, messages, clock, nextUuid >>

\* await db.messages.find(...).to_list(1000), then conversation_text
end_find(r) ==
    /\ req[r].pc = "end_find"
    /\ \E found \in { find_messages(req[r].cid) } :
       \E sorted \in { SortedByIso(found) } :
          req' = [req EXCEPT ![r] =
                    [@ EXCEPT !.pc = "end_llm", !.text = conversation_text(sorted)]]
    /\ UNCHANGED << conversations, messages, clock, nextUuid >>

\* the summarizer call and end_time = datetime.now(timezone.utc)
end_llm(r) ==
    /\ req[r].pc = "end_llm"
    /\ \E outcome \in GatewayOutcomes, t \in Now :
         LET summary == summarize(outcome)
             rec == [req[r] EXCEPT !.llm = @ + 1, !.failed = ~outcome.ok]
         IN  IF summary.raised
             THEN /\ req' = [req EXCEPT ![r] = Respond(rec, 500, None)]
                  /\ UNCHANGED clock
             ELSE /\ req' = [req EXCEPT ![r] =
                        [rec EXCEPT !.pc = "end_update", !.text = summary.value,
                                    !.time = t]]
                  /\ clock' = t
    /\ UNCHANGED << conversations, messages, nextUuid >>

\* await db.conversations.update_one(...); return Conversation(**conv)
end_update(r) ==
    /\ req[r].pc = "end_update"
    /\ LET fields == end_set(req[r].text, req[r].time)
       IN  /\ conversations' = update_one(conversations, req[r].cid, fields)
           /\ req' = [req EXCEPT ![r] =
                 Respond([req[r] EXCEPT !.upd = @ + 1], 200,
                         Some([k \in DOMAIN req[r].conv[1] |->
                                 IF k \in DOMAIN fields THEN fields[k]
                                 ELSE req[r].conv[1][k]]))]
    /\ UNCHANGED << messages, clock, nextUuid >>

\* ------------------------------------------------------------ react_to_message
\* if input.reaction in reactions: reactions.remove(...) else: reactions.append(...)
\* list.remove takes out the first occurrence.
list_remove(list, x) ==
    LET first == CHOOSE i \in 1 .. Len(list) :
                     list[i] = x /\ \A j \in 1 .. (i - 1) : list[j] # x
    IN  SubSeq(list, 1, first - 1) \o SubSeq(list, first + 1, Len(list))

\* react_to_message that only ever adds the reaction.
toggle_reaction_appends(reactions, reaction) == Append(reactions, reaction)

toggle_reaction(reactions, reaction) ==
    IF \E i \in 1 .. Len(reactions) : reactions[i] = reaction
    THEN list_remove(reactions, reaction)
    ELSE Append(reactions, reaction)

react_to_message(r) ==
    /\ CanStart(r)
    /\ \E mid \in MsgArgs, reaction \in Symbols :
         LET msg == find_one(messages, mid)
             rec == Started(r, "react", 0, mid, << reaction >>)
         IN  req' = [req EXCEPT ![r] =
                IF msg = None THEN Respond(rec, 404, None)
                ELSE [rec EXCEPT !.pc = "react_update", !.msg = msg,
                                 !.body = Some([ success |-> TRUE, reactions |->
                                            toggle_reaction(msg[1].reactions, reaction) ])]]
    /\ UNCHANGED << conversations, messages, clock, nextUuid >>

\* await db.messages.update_one({"id": message_id}, {"$set": {"reactions": reactions}})
react_update(r) ==
    /\ req[r].pc = "react_update"
    /\ messages' = update_one(messages, req[r].mid,
                               [ reactions |-> req[r].body[1].reactions ])
    /\ req' = [req EXCEPT ![r] = Respond([req[r] EXCEPT !.upd = @ + 1], 200, req[r].body)]
    /\ UNCHANGED << conversations, clock, nextUuid >>

\* ------------------------------------------------------------ bookmark_message
\* bookmarked = not msg.get('bookmarked', False)
toggle_bookmark(msg) == ~msg.bookmarked

bookmark_message(r) ==
    /\ CanStart(r)
    /\ \E mid \in MsgArgs :
         LET msg == find_one(messages, mid)
             rec == Started(r, "bookmark", 0, mid, << >>)
         IN  req' = [req EXCEPT ![r] =
                IF msg = None THEN Respond(rec, 404, None)
                ELSE [rec EXCEPT !.pc = "bookmark_update", !.msg = msg,
                                 !.body = Some([ success |-> TRUE, bookmarked |->
                                            toggle_bookmark(msg[1]) ])]]
    /\ UNCHANGED << conversations, messages, clock, nextUuid >>

\* await db.messages.update_one({"id": message_id}, {"$set": {"bookmarked": bookmarked}})
bookmark_update(r) ==
    /\ req[r].pc = "bookmark_update"
    /\ messages' = update_one(messages, req[r].mid,
                               [ bookmarked |-> req[r].body[1].bookmarked ])
    /\ req' = [req EXCEPT ![r] = Respond([req[r] EXCEPT !.upd = @ + 1], 200, req[r].body)]
    /\ UNCHANGED << conversations, clock, nextUuid >>

\* ---------------------------------------------------------------------- Next
Next ==
    \E r \in DOMAIN req :
        \/ create_conversation(r)
        \/ send_message(r)
        \/ send_insert_user(r)
        \/ send_find(r)
        \/ send_llm(r)
        \/ send_insert_ai(r)
        \/ end_conversation(r)
        \/ end_find(r)
        \/ end_llm(r)
        \/ end_update(r)
        \/ react_to_message(r)
        \/ react_update(r)
        \/ bookmark_message(r)
        \/ bookmark_update(r)

Spec == Init /\ [][Next]_vars

\* The next step of a handler that has started: the event loop resumes it
\* once the store or the gateway has answered its await.
Continue(r) ==
    \/ send_insert_user(r) \/ send_find(r) \/ send_llm(r) \/ send_insert_ai(r)
    \/ end_find(r) \/ end_llm(r) \/ end_update(r)
    \/ react_update(r) \/ bookmark_update(r)

\* ============================================================ read handlers
\* str.split(sep): the pieces between the separators, empty pieces included.
split(chars, sep) ==
    LET seps == { i \in 1 .. Len(chars) : chars[i] = sep }
        \* position of the k-th separator; 0 and Len + 1 stand at the two ends
        at(k) == IF k = 0 THEN 0
                 ELSE IF k > Cardinality(seps) THEN Len(chars) + 1
                 ELSE CHOOSE p \in seps : Cardinality({ q \in seps : q < p }) = k - 1
    IN  [ k \in 1 .. (Cardinality(seps) + 1) |->
            SubSeq(chars, at(k - 1) + 1, at(k) - 1) ]

\* str.strip(): without the white space at its two ends.
strip(chars) ==
    LET inked == { i \in 1 .. Len(chars) : chars[i] # " " }
    IN  IF inked = {} THEN << >>
        ELSE SubSeq(chars, CHOOSE i \in inked : \A j \in inked : i <= j,
                           CHOOSE i \in inked : \A j \in inked : j <= i)

\* list[:n] and list[-n:]
first_n(list, n) == SubSeq(list, 1, IF Len(list) < n THEN Len(list) ELSE n)
last_n(list, n) ==
    SubSeq(list, IF Len(list) < n THEN 1 ELSE Len(list) - n + 1, Len(list))

\* What the gateway answers to the suggestion prompt: a text of lines, some
\* blank, padded or starting with '#', or an exception.
SuggestionOutcomes ==
    { [ ok |-> TRUE,
        text |-> << "#", "3", "\n", " ", "A", "?", " ", "\n", "\n",
                    "B", "?", "\n", " ", "#", "\n", "C", "?", "\n", "D", "?" >> ],
      [ ok |-> TRUE, text |-> << " ", "#", "E", "?", "\n", "F", "?" >> ],
      [ ok |-> FALSE, text |-> << "gateway unreachable" >> ] }

DefaultSuggestions ==
    << << "Tell me about yourself" >>, << "What can you help me with?" >>,
       << "Explain a complex topic simply" >> >>

\* generate_suggestions reaches its gateway call only with a history.
suggestions_call_gateway(conversation_history) == conversation_history # << >>

\* f"Recent conversation:\n{context}\n\nGenerate 3 relevant follow-up questions:"
suggestions_prompt(conversation_history) ==
    << "Recent conversation:\n" >>
    \o conversation_text(last_n(conversation_history, 3))
    \o << "\n\nGenerate 3 relevant follow-up questions:" >>

\* generate_suggestions keeping the lines that start with '#'.
generate_suggestions_keeps_all(conversation_history, outcome) ==
    IF conversation_history = << >> THEN DefaultSuggestions
    ELSE IF ~outcome.ok THEN << >>
    ELSE first_n(split(outcome.text, "\n"), 3)

\* suggestions = [s.strip() for s in response.split('\n')
\*                if s.strip() and not s.strip().startswith('#')][:3]
\* and [] when the gateway raises.
generate_suggestions(conversation_history, outcome) ==
    IF conversation_history = << >> THEN DefaultSuggestions
    ELSE IF ~outcome.ok THEN << >>
    ELSE LET lines == split(outcome.text, "\n")
             stripped == [ i \in 1 .. Len(lines) |-> strip(lines[i]) ]
         IN  first_n(SelectSeq(stripped, LAMBDA l : l # << >> /\ l[1] # "#"), 3)

\* Histories a caller can pass: up to MaxTurns turns of either role.
Turns ==
    { [ role |-> "user", content |-> << "Hello" >> ],
      [ role |-> "assistant", content |-> << "generated text" >> ] }

Histories == UNION { [ 1 .. n -> Turns ] : n \in 0 .. MaxTurns }

\* A call of generate_suggestions(conversation_history) up to its await: the
\* default prompts for an empty history, else the prompt handed to the
\* gateway.
suggest(r) ==
    /\ CanStart(r)
    /\ \E conversation_history \in Histories :
         LET rec == [Started(r, "suggest", 0, 0, << >>) EXCEPT
                        !.lm = conversation_history]
         IN  req' = [req EXCEPT ![r] =
                IF suggestions_call_gateway(conversation_history)
                THEN [rec EXCEPT !.pc = "suggest_llm",
                                 !.text = suggestions_prompt(conversation_history)]
                ELSE [Respond(rec, 200,
                              Some(generate_suggestions(conversation_history,
                                     CHOOSE outcome \in SuggestionOutcomes : TRUE)))
                      EXCEPT !.lm = conversation_history]]
    /\ UNCHANGED << conversations, messages, clock, nextUuid >>

\* response = await chat.send_message(prompt), the parse, or the except clause
suggest_llm(r) ==
    /\ req[r].pc = "suggest_llm"
    /\ \E outcome \in SuggestionOutcomes :
         LET rec == [req[r] EXCEPT !.llm = @ + 1, !.failed = ~outcome.ok,
                                   !.heard = IF outcome.ok THEN Some(outcome.text)
                                             ELSE None]
         IN  req' = [req EXCEPT ![r] =
                [Respond(rec, 200, Some(generate_suggestions(req[r].lm, outcome)))
                 EXCEPT !.lm = req[r].lm, !.text = req[r].text]]
    /\ UNCHANGED << conversations, messages, clock, nextUuid >>

\* conv['start_time'] = datetime.fromisoformat(conv['start_time']), and the
\* same for end_time when the conversation has one.
parse_conversation(conv) ==
    [ conv EXCEPT !.start_time = fromisoformat(isoformat(@)),
                  !.end_time = IF @ = None THEN None
                               ELSE Some(fromisoformat(isoformat(@[1]))) ]

\* msg['timestamp'] = datetime.fromisoformat(msg['timestamp']) for each
\* message, then messages.sort(key=lambda x: x['timestamp'])
parse_and_sort(docs) ==
    LET sorted == SortedByTime(docs)
    IN  [ i \in 1 .. Len(sorted) |->
            [ sorted[i] EXCEPT !.timestamp = fromisoformat(isoformat(@)) ] ]

\* get_conversation asking for suggestions whatever the conversation.
get_suggests_always(conv, sorted) == TRUE

\* if conv['status'] == 'active' and messages:
get_suggests(conv, sorted) == conv.status = "active" /\ sorted # << >>

\* ------------------------------------------------------------ get_conversation
get_conversation(r) ==
    /\ CanStart(r)
    /\ \E cid \in ConvArgs :
         LET conv == find_one(conversations, cid)
             rec == [Started(r, "get", cid, 0, << >>) EXCEPT
                       !.saw = IF conv = None THEN "nothing" ELSE conv[1].status]
         IN  req' = [req EXCEPT ![r] =
                IF conv = None THEN Respond(rec, 404, None)
                ELSE [rec EXCEPT !.pc = "get_find",
                                 !.conv = Some(parse_conversation(conv[1]))]]
    /\ UNCHANGED << conversations, messages, clock, nextUuid >>

\* await db.messages.find(...).to_list(1000), the parse and the sort
get_find(r) ==
    /\ req[r].pc = "get_find"
    /\ \E found \in { find_messages(req[r].cid) } :
       \E sorted \in { parse_and_sort(found) } :
          req' = [req EXCEPT ![r] =
             IF get_suggests(req[r].conv[1], sorted)
             THEN [@ EXCEPT !.pc = "get_suggest", !.lm = sorted]
             ELSE Respond(req[r], 200,
                          Some([ conversation |-> req[r].conv[1],
                                 messages |-> sorted, suggestions |-> << >> ]))]
    /\ UNCHANGED << conversations, messages, clock, nextUuid >>

\* suggestions = await generate_suggestions(msg_history); return
get_suggest(r) ==
    /\ req[r].pc = "get_suggest"
    /\ \E outcome \in SuggestionOutcomes :
         LET msg_history == RoleContent(req[r].lm)
             called == suggestions_call_gateway(msg_history)
             rec == [req[r] EXCEPT !.llm = IF called THEN @ + 1 ELSE @,
                                   !.failed = called /\ ~outcome.ok]
         IN  req' = [req EXCEPT ![r] =
                Respond(rec, 200,
                        Some([ conversation |-> req[r].conv[1],
                               messages |-> req[r].lm,
                               suggestions |->
                                   generate_suggestions(msg_history, outcome) ]))]
    /\ UNCHANGED << conversations, messages, clock, nextUuid >>

\* ---------------------------------------------------------- share_conversation
\* share_conversation handing out the token the conversation already has.
share_token_kept(conv, uuid) ==
    IF conv.share_token = None THEN uuid ELSE conv.share_token[1]

\* share_token = str(uuid.uuid4())
share_token_minted(conv, uuid) == uuid

share_conversation(r) ==
    /\ CanStart(r)
    /\ \E cid \in ConvArgs :
         LET conv == find_one(conversations, cid)
             rec == [Started(r, "share", cid, 0, << >>) EXCEPT
                       !.saw = IF conv = None THEN "nothing" ELSE conv[1].status]
         IN  IF conv = None
             THEN /\ req' = [req EXCEPT ![r] = Respond(rec, 404, None)]
                  /\ UNCHANGED nextUuid
             ELSE /\ req' = [req EXCEPT ![r] =
                        [rec EXCEPT !.pc = "share_update",
                                    !.token = share_token_minted(conv[1], nextUuid + 1)]]
                  /\ nextUuid' = nextUuid + 1
    /\ UNCHANGED << conversations, messages, clock >>

\* await db.conversations.update_one({"id": ...}, {"$set": {"share_token": ...}})
\* return {"share_token": share_token, "share_url": f"/shared/{share_token}"}
share_update(r) ==
    /\ req[r].pc = "share_update"
    /\ conversations' = update_one(conversations, req[r].cid,
                                    [ share_token |-> Some(req[r].token) ])
    /\ req' = [req EXCEPT ![r] =
          Respond([req[r] EXCEPT !.upd = @ + 1], 200,
                  Some([ share_token |-> req[r].token,
                         share_url |-> << "/shared/", req[r].token >> ]))]
    /\ UNCHANGED << messages, clock, nextUuid >>

\* ----------------------------------------------------- get_shared_conversation
get_shared_conversation(r) ==
    /\ CanStart(r)
    /\ \E token \in TokenArgs :
         LET conv == find_one_shared(token)
             rec == [Started(r, "get_shared", 0, 0, << >>) EXCEPT
                       !.token = token,
                       !.saw = IF conv = None THEN "nothing" ELSE conv[1].status]
         IN  req' = [req EXCEPT ![r] =
                IF conv = None THEN Respond(rec, 404, None)
                ELSE [rec EXCEPT !.pc = "shared_find", !.cid = conv[1].id,
                                 !.conv = conv]]
    /\ UNCHANGED << conversations, messages, clock, nextUuid >>

\* get_shared_conversation returning the messages as the store gave them.
shared_find_store_order(r) ==
    /\ req[r].pc = "shared_find"
    /\ \E found \in { find_messages(req[r].conv[1].id) } :
          req' = [req EXCEPT ![r] =
             Respond(req[r], 200,
                     Some([ conversation |-> parse_conversation(req[r].conv[1]),
                            messages |-> found ]))]
    /\ UNCHANGED << conversations, messages, clock, nextUuid >>

\* await db.messages.find({"conversation_id": conv['id']}).to_list(1000), the
\* parse and the sort, the parse of the conversation's times, return
shared_find(r) ==
    /\ req[r].pc = "shared_find"
    /\ \E found \in { find_messages(req[r].conv[1].id) } :
       \E sorted \in { parse_and_sort(found) } :
          req' = [req EXCEPT ![r] =
             Respond(req[r], 200,
                     Some([ conversation |-> parse_conversation(req[r].conv[1]),
                            messages |-> sorted ]))]
    /\ UNCHANGED << conversations, messages, clock, nextUuid >>

\* ---------------------------------------------------------- export_conversation
\* str.capitalize() of the two roles
capitalize(role) ==
    CASE role = "user" -> "User" [] role = "assistant" -> "Assistant"

\* " ".join(list)
join_spaced(list) ==
    [ i \in 1 .. (IF list = << >> THEN 0 ELSE 2 * Len(list) - 1) |->
        IF i % 2 = 1 THEN list[(i + 1) \div 2] ELSE " " ]

\* the markdown text of one message
markdown_message(msg) ==
    << "### ", (IF msg.role = "user" THEN "(user icon)" ELSE "(robot icon)"),
       " ", capitalize(msg.role), "\n\n" >>
    \o msg.content \o << "\n\n" >>
    \o (IF msg.bookmarked THEN << "(bookmark icon) *Bookmarked*\n\n" >> ELSE << >>)
    \o (IF msg.reactions # << >>
        THEN << "Reactions: " >> \o join_spaced(msg.reactions) \o << "\n\n" >>
        ELSE << >>)

\* the texts of a list one after the other, as md_content += ... builds them
concatenated(texts) ==
    LET n == Len(texts)
        lengths == { Len(texts[i]) : i \in 1 .. n }
        longest == IF n = 0 THEN 0 ELSE CHOOSE w \in lengths : \A v \in lengths : v <= w
        \* Ends[i]: the length of the first i texts together
        Ends == [ i \in 0 .. n |->
                    Cardinality({ c \in (1 .. i) \X (1 .. longest) :
                                    c[2] <= Len(texts[c[1]]) }) ]
        Flat(end) ==
            [ p \in 1 .. end[n] |->
                LET i == CHOOSE k \in 1 .. n : end[k - 1] < p /\ p <= end[k]
                IN  texts[i][p - end[i - 1]] ]
    IN  CHOOSE flat \in { Flat(end) : end \in { Ends } } : TRUE

export_markdown(conv, sorted) ==
    << "# " >> \o conv.title \o << "\n\n" >>
        \o << "**Started:** " >> \o isoformat(conv.start_time) \o << "\n" >>
        \o (IF conv.end_time # None
            THEN << "**Ended:** " >> \o isoformat(conv.end_time[1]) \o << "\n" >>
            ELSE << >>)
        \o (IF conv.summary # None /\ conv.summary # Some(<< >>)
            THEN << "\n**Summary:** " >> \o conv.summary[1] \o << "\n" >>
            ELSE << >>)
        \o << "\n---\n\n" >>
        \o concatenated([ i \in 1 .. Len(sorted) |-> markdown_message(sorted[i]) ])

\* the story of the PDF: the title, the summary if any, and a heading and a
\* paragraph per message
export_story(conv, sorted) ==
    << [ style |-> "CustomTitle", text |-> conv.title ] >>
    \o (IF conv.summary # None /\ conv.summary # Some(<< >>)
        THEN << [ style |-> "Normal",
                  text |-> << "<b>Summary:</b> " >> \o conv.summary[1] ] >>
        ELSE << >>)
    \o [ i \in 1 .. (2 * Len(sorted)) |->
           IF i % 2 = 1
           THEN [ style |-> "Heading3",
                  text |-> << "<b>", capitalize(sorted[(i + 1) \div 2].role), ":</b>" >> ]
           ELSE [ style |-> "Normal", text |-> sorted[i \div 2].content ] ]

\* export_conversation taking every format it does not know for json.
export_known_any(format) == TRUE

\* the formats of the if / elif chain; any other reaches the final else
export_known(format) == format \in { "json", "markdown", "pdf" }

export_conversation(r) ==
    /\ CanStart(r)
    /\ \E cid \in ConvArgs, format \in Formats :
         LET conv == find_one(conversations, cid)
             rec == [Started(r, "export", cid, 0, << format >>) EXCEPT
                       !.saw = IF conv = None THEN "nothing" ELSE conv[1].status]
         IN  req' = [req EXCEPT ![r] =
                IF conv = None THEN Respond(rec, 404, None)
                ELSE [rec EXCEPT !.pc = "export_find", !.conv = conv]]
    /\ UNCHANGED << conversations, messages, clock, nextUuid >>

\* await db.messages.find(...).to_list(1000), the sort on the stored
\* timestamps, and the rendering in the format asked for
export_find(r) ==
    /\ req[r].pc = "export_find"
    /\ \E found \in { find_messages(req[r].cid) } :
       \E sorted \in { SortedByIso(found) } :
          LET conv == req[r].conv[1]
              format == req[r].arg[1]
          IN  req' = [req EXCEPT ![r] =
                 IF ~export_known(format) THEN Respond(req[r], 400, None)
                 ELSE IF format = "markdown"
                 THEN Respond(req[r], 200,
                              Some([ markdown |-> export_markdown(conv, sorted) ]))
                 ELSE IF format = "pdf"
                 THEN Respond(req[r], 200,
                              Some([ path |-> << "/tmp/conversation_", conv.id, ".pdf" >>,
                                     filename |-> conv.title \o << ".pdf" >>,
                                     story |-> export_story(conv, sorted) ]))
                 ELSE Respond(req[r], 200,
                              Some([ conversation |-> conv, messages |-> sorted ]))]
    /\ UNCHANGED << conversations, messages, clock, nextUuid >>

\* ---------------------------------------------------------- query_conversations
\* str(i) of a position in the list of ended conversations
str(n) == IF n < 10 THEN << Digit(n) >> ELSE << Digit(n \div 10), Digit(n % 10) >>

\* "\n\n".join(f"Conversation {i} (Title: {conv['title']}):\n{summary}" ...)
query_context(found) ==
    LET part(i) ==
            << "Conversation " >> \o str(i) \o << " (Title: " >> \o found[i].title
            \o << "):\n" >>
            \o (IF found[i].summary = None THEN << "None" >> ELSE found[i].summary[1])
        joined[n \in 0 .. Len(found)] ==
            IF n = 0 THEN << >>
            ELSE joined[n - 1] \o (IF n > 1 THEN << "\n\n" >> ELSE << >>) \o part(n)
    IN  joined[Len(found)]

\* f"Past conversations:\n\n{context}\n\nUser question: {input.query}\n\n..."
query_prompt(found, query) ==
    << "Past conversations:\n\n" >> \o query_context(found)
    \o << "\n\nUser question: " >> \o query \o << "\n\nProvide a clear answer:" >>

\* The number of conversations a query returns as references.
MaxRelevant == 5

\* query_conversations returning every ended conversation it found.
relevant_conversations_all(found, failed) == found

\* relevant_conversations=conversations[:5], whether or not the call failed
relevant_conversations(found, failed) == first_n(found, MaxRelevant)

\* query_conversations reading every conversation, whatever its status.
query_find_any == to_list(conversations)

\* await db.conversations.find({"status": "ended"}).to_list(1000)
query_find == find_ended

\* the except clause of the gateway call left out
query_answer_reraises(outcome) ==
    IF outcome.ok THEN Returned(outcome.text) ELSE Raised(outcome.text)

\* try: answer = await chat.send_message(prompt)
\* except Exception as e: answer = f"Error processing query: {str(e)}"
query_answer(outcome) ==
    IF outcome.ok THEN Returned(outcome.text)
    ELSE Returned(<< "Error processing query: " >> \o outcome.text)

NoPastConversations == << "No past conversations found to analyze." >>

query_conversations(r) ==
    /\ CanStart(r)
    /\ \E query \in Queries, found \in { query_find } :
         LET rec == Started(r, "query", 0, 0, query)
         IN  req' = [req EXCEPT ![r] =
                IF found = << >>
                THEN Respond([rec EXCEPT !.saw = "nothing"], 200,
                             Some([ answer |-> NoPastConversations,
                                    relevant_conversations |-> << >>,
                                    suggestions |-> << >> ]))
                ELSE [rec EXCEPT !.pc = "query_llm", !.lm = found, !.saw = "ended",
                                 !.text = query_prompt(found, query)]]
    /\ UNCHANGED << conversations, messages, clock, nextUuid >>

\* the gateway call and the answer
query_llm(r) ==
    /\ req[r].pc = "query_llm"
    /\ \E outcome \in GatewayOutcomes :
         LET answer == query_answer(outcome)
             rec == [req[r] EXCEPT !.llm = @ + 1, !.failed = ~outcome.ok]
         IN  req' = [req EXCEPT ![r] =
                [(IF answer.raised THEN Respond(rec, 500, None)
                  ELSE Respond(rec, 200,
                               Some([ answer |-> answer.value,
                                      relevant_conversations |->
                                          relevant_conversations(req[r].lm, ~outcome.ok),
                                      suggestions |-> << >> ])))
                 EXCEPT !.lm = req[r].lm, !.text = req[r].text]]
    /\ UNCHANGED << conversations, messages, clock, nextUuid >>

\* ------------------------------------------------------------------ the portal
\* Stores left by earlier runs.  SharedStore: create_conversation, two
\* send_message calls that overlapped (the second inserted first), then
\* share_conversation.  EndedStore: DemoStore after share_conversation and
\* end_conversation.
SharedStore ==
    [ conversations |->
        << [ Conversation(1, << "Demo" >>, 1) EXCEPT !.share_token = Some(6) ] >>,
      messages |-> << Message(3, 1, "user", << "Hello" >>, 3),
                      Message(2, 1, "user", << "Hello" >>, 2),
                      Message(5, 1, "assistant", << "generated text" >>, 5),
                      Message(4, 1, "assistant", << "generated text" >>, 4) >>,
      clock |-> 5, nextUuid |-> 6 ]

EndedStore ==
    [ conversations |->
        << [ Conversation(1, << "Demo" >>, 1) EXCEPT
               !.share_token = Some(4), !.status = "ended",
               !.summary = Some(<< "generated text" >>), !.end_time = Some(4) ] >>,
      messages |-> DemoStore.messages,
      clock |-> 4, nextUuid |-> 4 ]

\* ArchiveStore: six conversations created and ended one after the other,
\* none with a message, the summarizer failing for the even ones.
ArchiveStore ==
    [ conversations |->
        [ i \in 1 .. 6 |->
            [ Conversation(i, << "Demo" >>, 2 * i - 1) EXCEPT
                !.status = "ended",
                !.summary = Some(summarize([ ok |-> i % 2 = 1,
                                             text |-> << "generated text" >> ]).value),
                !.end_time = Some(2 * i) ] ],
      messages |-> << >>, clock |-> 12, nextUuid |-> 6 ]

PortalStores == { EmptyStore, DemoStore, SharedStore, EndedStore, ArchiveStore }

\* The calls of one run of the portal, in arrival order.
Calls == 1 .. MaxCalls

PortalInit ==
    /\ \E store \in PortalStores :
         /\ conversations = store.conversations
         /\ messages = store.messages
         /\ clock = store.clock
         /\ nextUuid = store.nextUuid
    /\ req = [ r \in Calls |-> Idle ]

PortalNext ==
    \/ Next
    \/ \E r \in Calls :
        \/ get_conversation(r)
        \/ get_find(r)
        \/ get_suggest(r)
        \/ share_conversation(r)
        \/ share_update(r)
        \/ get_shared_conversation(r)
        \/ shared_find(r)
        \/ export_conversation(r)
        \/ export_find(r)
        \/ query_conversations(r)
        \/ query_llm(r)

Portal == PortalInit /\ [][PortalNext]_vars

\* ----------------------------------------------------------------- reading
\* BulkStore: a conversation in which create_conversation, 501 send_message
\* calls one after the other and share_conversation left two messages more
\* than one to_list(1000) returns.
BulkStore ==
    [ conversations |->
        << [ Conversation(1, << "Demo" >>, 1) EXCEPT
               !.share_token = Some(ToListLength + 4) ] >>,
      messages |->
        [ i \in 1 .. (ToListLength + 2) |->
            IF i % 2 = 1 THEN Message(i + 1, 1, "user", << "Hello" >>, i + 1)
            ELSE Message(i + 1, 1, "assistant", << "generated text" >>, i + 1) ],
      clock |-> ToListLength + 3, nextUuid |-> ToListLength + 4 ]

\* The handlers that read a conversation and its messages, on the stores
\* earlier runs left.
ReadingStores == { DemoStore, SharedStore, EndedStore, ArchiveStore, BulkStore }

ReadingInit ==
    /\ \E store \in ReadingStores :
         /\ conversations = store.conversations
         /\ messages = store.messages
         /\ clock = store.clock
         /\ nextUuid = store.nextUuid
    /\ req = [ r \in Calls |-> Idle ]

ReadingNext ==
    \E r \in Calls :
        \/ get_conversation(r)
        \/ get_find(r)
        \/ get_suggest(r)
        \/ get_shared_conversation(r)
        \/ shared_find(r)
        \/ export_conversation(r)
        \/ export_find(r)

Reading == ReadingInit /\ [][ReadingNext]_vars

\* ----------------------------------------------------------------- sharing
\* The handlers that issue and resolve share tokens and read a conversation,
\* with every handler that writes a conversation or inserts a message.
SharingStores == { EmptyStore, DemoStore, SharedStore, EndedStore }

SharingInit ==
    /\ \E store \in SharingStores :
         /\ conversations = store.conversations
         /\ messages = store.messages
         /\ clock = store.clock
         /\ nextUuid = store.nextUuid
    /\ req = [ r \in Reqs |-> Idle ]

SharingNext ==
    \E r \in Reqs :
        \/ create_conversation(r)
        \/ send_message(r)
        \/ send_insert_user(r)
        \/ send_find(r)
        \/ send_llm(r)
        \/ send_insert_ai(r)
        \/ end_conversation(r)
        \/ end_find(r)
        \/ end_llm(r)
        \/ end_update(r)
        \/ share_conversation(r)
        \/ share_update(r)
        \/ get_conversation(r)
        \/ get_find(r)
        \/ get_suggest(r)
        \/ get_shared_conversation(r)
        \/ shared_find(r)

Sharing == SharingInit /\ [][SharingNext]_vars

\* ------------------------------------------------------------- the suggestions
\* generate_suggestions called on its own with any history, next to the
\* get_conversation calls that reach it through the store.
SuggestingStores == { DemoStore, SharedStore, EndedStore }

SuggestingInit ==
    /\ \E store \in SuggestingStores :
         /\ conversations = store.conversations
         /\ messages = store.messages
         /\ clock = store.clock
         /\ nextUuid = store.nextUuid
    /\ req = [ r \in Calls |-> Idle ]

SuggestingNext ==
    \E r \in Calls :
        \/ suggest(r)
        \/ suggest_llm(r)
        \/ get_conversation(r)
        \/ get_find(r)
        \/ get_suggest(r)

Suggesting == SuggestingInit /\ [][SuggestingNext]_vars

\* ================================================================ properties
Done(r) == req[r].pc = "done"
ConvIndexes == 1 .. Len(conversations)
Ended(i) == conversations[i].status = "ended"
Elements(list) == { list[i] : i \in 1 .. Len(list) }
MessagesIn(coll, cid) == SelectSeq(coll, LAMBDA d : d.conversation_id = cid)

\* C1: in every state, also between the steps of end calls, a conversation
\* is either active with neither summary nor end time, or ended with both;
\* and the conversation create returns is active with neither.
StatusSummaryEndTimeAgree ==
    /\ \A i \in ConvIndexes :
         \/ /\ conversations[i].status = "active"
            /\ conversations[i].summary = None
            /\ conversations[i].end_time = None
         \/ /\ conversations[i].status = "ended"
            /\ conversations[i].summary # None
            /\ conversations[i].end_time # None
    /\ \A r \in Reqs :
         req[r].op = "create" /\ Done(r) =>
            /\ req[r].body[1].status = "active"
            /\ req[r].body[1].summary = None
            /\ req[r].body[1].end_time = None

\* An ended conversation, while a second end call on it is between its steps.
EndedWhileEndInFlight ==
    \E i \in ConvIndexes, r \in Reqs :
        /\ Ended(i)
        /\ req[r].op = "end" /\ req[r].cid = conversations[i].id
        /\ req[r].pc \in { "end_find", "end_llm", "end_update" }

\* C2: once the store shows a conversation ended, no step inserts a message
\* for it.
NoMessageAfterEnded ==
    [][ \A i \in ConvIndexes :
          Ended(i) =>
             MessagesIn(messages', conversations[i].id)
                = MessagesIn(messages, conversations[i].id) ]_vars

\* C3: a send_message whose find_one returns an ended conversation is
\* answered 400 and has inserted no message and called no gateway.
SendOnEndedRejected ==
    \A r \in Reqs :
        req[r].op = "send" /\ req[r].saw = "ended" =>
            /\ Done(r) /\ req[r].status = 400
            /\ req[r].ins = << >>
            /\ req[r].llm = 0
            /\ req[r].upd = 0

\* A send_message answered 400 on an ended conversation that has messages.
SendRejectedOnEnded ==
    \E r \in Reqs, i \in ConvIndexes :
        /\ req[r].op = "send" /\ req[r].saw = "ended" /\ Done(r)
        /\ req[r].cid = conversations[i].id /\ Ended(i)
        /\ MessagesIn(messages, req[r].cid) # << >>

\* C4: a conversation enters the store active, stays in the store, and the
\* only change of status any step makes is active -> ended.
StatusOnlyActiveToEnded ==
    [][ /\ Len(conversations') >= Len(conversations)
        /\ \A i \in 1 .. Len(conversations') :
             IF i > Len(conversations)
             THEN conversations'[i].status = "active"
             ELSE /\ conversations'[i].id = conversations[i].id
                  /\ conversations'[i].status \in { "active", "ended" }
                  /\ conversations'[i].status # conversations[i].status =>
                        /\ conversations[i].status = "active"
                        /\ conversations'[i].status = "ended" ]_vars

\* An ended conversation on which a later end call has been answered.
EndedStaysEnded ==
    \E i \in ConvIndexes, r \in Reqs :
        /\ Ended(i)
        /\ req[r].op = "end" /\ req[r].cid = conversations[i].id
        /\ Done(r) /\ req[r].saw = "ended"

\* C5: an end_conversation whose find_one returns an ended conversation is
\* answered 400, has called no summarizer and has written nothing, so the
\* summary and end time stay as they were.
EndOnEndedRejected ==
    \A r \in Reqs :
        req[r].op = "end" /\ req[r].saw = "ended" =>
            /\ Done(r) /\ req[r].status = 400
            /\ req[r].llm = 0
            /\ req[r].upd = 0
            /\ req[r].ins = << >>

\* The second of two end calls, answered 400 after the first was answered 200.
SecondEndRejected ==
    \E r, q \in Reqs :
        /\ r < q
        /\ req[r].op = "end" /\ Done(r) /\ req[r].status = 200
        /\ req[q].op = "end" /\ Done(q) /\ req[q].status = 400
        /\ req[q].cid = req[r].cid
        /\ find_one(conversations, req[r].cid) = req[r].body

\* C6: of the end calls on one conversation at most one is answered 200 and
\* at most one writes the summary and end time.
AtMostOneEndSucceeds ==
    \A r, q \in Reqs :
        /\ req[r].op = "end" /\ req[q].op = "end"
        /\ req[r].cid = req[q].cid
        /\ req[r].upd > 0 /\ req[q].upd > 0
        => r = q

\* C7: an end_conversation whose find_one returns an active conversation is
\* never answered with an error and, until it is answered, can always take
\* its next step; it is answered 200 with the conversation ended, summary
\* and end time set, the store showing it ended with the summary and end
\* time of an end call answered 200; when the summarizer raised, the summary
\* written and returned is the error text.
EndOnActiveSucceeds ==
    \A r \in Reqs :
            req[r].op = "end" /\ req[r].saw = "active" =>
               /\ req[r].status \in { 0, 200 }
               /\ ~Done(r) => ENABLED Continue(r)
               /\ Done(r) =>
                    /\ req[r].status = 200
                    /\ req[r].llm = 1 /\ req[r].upd = 1
                    /\ req[r].body[1].id = req[r].cid
                    /\ req[r].body[1].status = "ended"
                    /\ req[r].body[1].summary # None
                    /\ req[r].body[1].end_time # None
                    /\ req[r].failed =>
                          req[r].body[1].summary[1][1] = "Error generating summary: "
                    /\ \E q \in Reqs :
                          /\ req[q].op = "end" /\ req[q].cid = req[r].cid
                          /\ Done(q) /\ req[q].status = 200
                          /\ find_one(conversations, req[r].cid) = req[q].body

\* An end answered 200 on a conversation without messages, summarizer failed.
EmptyConversationEndedOnFailure ==
    \E r \in Reqs :
        /\ req[r].op = "end" /\ Done(r) /\ req[r].status = 200 /\ req[r].failed
        /\ MessagesIn(messages, req[r].cid) = << >>
        /\ find_one(conversations, req[r].cid) = req[r].body
        /\ req[r].body[1].summary[1][1] = "Error generating summary: "

\* Position of the message with this id in the store.
IndexOfMessage(id) == CHOOSE i \in 1 .. Len(messages) : messages[i].id = id

\* The roles of a transcript alternate, the first being the user's.
Alternates(docs) ==
    \A i \in 1 .. Len(docs) :
        docs[i].role = (IF i % 2 = 1 THEN "user" ELSE "assistant")

\* Two send_message calls on the conversation were in flight together.
SendsOverlap(cid) ==
    \E r, q \in Reqs :
        /\ req[r].op = "send" /\ req[r].cid = cid /\ req[r].saw = "active"
        /\ req[q].op = "send" /\ req[q].cid = cid /\ req[q].saw = "active"
        /\ r \in req[q].overlaps

\* C8: a send_message answered 200 has inserted two messages, the user's
\* with the given content and then the assistant's, has returned the
\* assistant's and has written to no conversation; and the transcript, in
\* timestamp order, of a conversation on which no two send_message calls
\* overlapped alternates user, assistant from the first message on.
SendAddsUserThenAssistant ==
    /\ \A r \in Reqs :
         req[r].op = "send" /\ Done(r) /\ req[r].status = 200 =>
            /\ Len(req[r].ins) = 2
            /\ req[r].ins[1] \in MsgIds /\ req[r].ins[2] \in MsgIds
            /\ IndexOfMessage(req[r].ins[1]) < IndexOfMessage(req[r].ins[2])
            /\ LET user == messages[IndexOfMessage(req[r].ins[1])]
                   assistant == messages[IndexOfMessage(req[r].ins[2])]
               IN  /\ user.role = "user" /\ user.content = req[r].arg
                   /\ user.conversation_id = req[r].cid
                   /\ assistant.role = "assistant"
                   /\ assistant.conversation_id = req[r].cid
                   /\ req[r].body[1].id = assistant.id
                   /\ req[r].body[1].role = "assistant"
                   /\ req[r].body[1].content = assistant.content
                   /\ req[r].body[1].timestamp = assistant.timestamp
            /\ req[r].upd = 0
    /\ \A cid \in ConvIds :
         ~SendsOverlap(cid) => Alternates(SortedByTime(find_messages(cid)))

\* Two send_message calls, one after the other, answered 200 on a
\* conversation that had a user/assistant pair before.
TwoSendsInTurn ==
    \E r, q \in Reqs :
        /\ r < q /\ r \notin req[q].overlaps
        /\ req[r].op = "send" /\ Done(r) /\ req[r].status = 200
        /\ req[q].op = "send" /\ Done(q) /\ req[q].status = 200
        /\ req[q].cid = req[r].cid
        /\ Len(find_messages(req[r].cid)) = 6

\* C9: a send_message that has inserted its user message is never answered
\* with an error and, until it is answered, can always take its next step;
\* the user message stays in the store; the call is answered 200 having
\* inserted exactly one assistant message, which it returns; when the
\* gateway raised, that message's content is the error text.
SendCompletesOnceUserSaved ==
    \A r \in Reqs :
            req[r].op = "send" /\ req[r].ins # << >> =>
               /\ req[r].status \in { 0, 200 }
               /\ ~Done(r) => ENABLED Continue(r)
               /\ req[r].ins[1] \in MsgIds
               /\ messages[IndexOfMessage(req[r].ins[1])].role = "user"
               /\ messages[IndexOfMessage(req[r].ins[1])].content = req[r].arg
               /\ Len(req[r].ins) = (IF Done(r) THEN 2 ELSE 1)
               /\ Done(r) =>
                    /\ req[r].status = 200
                    /\ req[r].llm = 1
                    /\ req[r].ins[2] \in MsgIds
                    /\ req[r].body[1].id = req[r].ins[2]
                    /\ req[r].body[1].role = "assistant"
                    /\ messages[IndexOfMessage(req[r].ins[2])].content
                          = req[r].body[1].content
                    /\ req[r].failed =>
                          req[r].body[1].content[1] = "Error generating response: "

\* A send_message answered 200 whose gateway call raised.
SendAnsweredOnGatewayFailure ==
    \E r \in Reqs :
        /\ req[r].op = "send" /\ Done(r) /\ req[r].status = 200 /\ req[r].failed
        /\ req[r].body[1].content[1] = "Error generating response: "
        /\ Len(req[r].ins) = 2

\* Request k is a toggle on the same message as request r and was in flight
\* together with it.
TogglesTogether(k, r) ==
    /\ k # r
    /\ req[k].op \in { "react", "bookmark" } /\ req[k].msg # None
    /\ req[k].mid = req[r].mid
    /\ (k \in req[r].overlaps \/ r \in req[k].overlaps)

\* Requests r then q are the same toggle on the same message, both answered
\* 200, with no other operation on that message from the start of r to the
\* end of q.
SuccessiveToggles(r, q) ==
    /\ r < q /\ r \notin req[q].overlaps
    /\ req[r].op \in { "react", "bookmark" }
    /\ req[q].op = req[r].op /\ req[q].mid = req[r].mid /\ req[q].arg = req[r].arg
    /\ Done(r) /\ req[r].status = 200
    /\ Done(q) /\ req[q].status = 200
    /\ \A k \in Reqs \ { r, q } :
         /\ ~TogglesTogether(k, r) /\ ~TogglesTogether(k, q)
         /\ ~(r < k /\ k < q /\ req[k].op \in { "react", "bookmark" }
               /\ req[k].mid = req[r].mid /\ req[k].msg # None)

\* No request after q has written to the message q toggled.
LastToggle(q) ==
    \A k \in Reqs :
        k > q /\ req[k].op \in { "react", "bookmark" } /\ req[k].mid = req[q].mid
           => req[k].upd = 0

\* C10: a react call writes the reactions it read with the membership of
\* its symbol flipped, a bookmark call writes the negation of the flag it
\* read; and the second of two successive equal toggles writes back the
\* reaction set, respectively the flag, the message had before the first.
TogglesAreInvolutions ==
    /\ \A r \in Reqs :
         Done(r) /\ req[r].status = 200 =>
            /\ req[r].op = "react" =>
                  LET before == Elements(req[r].msg[1].reactions)
                      symbol == req[r].arg[1]
                  IN  Elements(req[r].body[1].reactions) =
                         (IF symbol \in before THEN before \ { symbol }
                          ELSE before \cup { symbol })
            /\ req[r].op = "bookmark" =>
                  req[r].body[1].bookmarked = ~req[r].msg[1].bookmarked
    /\ \A r, q \in Reqs :
         SuccessiveToggles(r, q) =>
            LET stored == messages[IndexOfMessage(req[r].mid)]
            IN  /\ req[r].op = "react" =>
                     /\ Elements(req[q].body[1].reactions)
                           = Elements(req[r].msg[1].reactions)
                     /\ LastToggle(q) =>
                           Elements(stored.reactions) = Elements(req[r].msg[1].reactions)
                /\ req[r].op = "bookmark" =>
                     /\ req[q].body[1].bookmarked = req[r].msg[1].bookmarked
                     /\ LastToggle(q) =>
                           stored.bookmarked = req[r].msg[1].bookmarked

\* Two successive react calls with the same symbol on one message, answered.
ReactedTwice ==
    \E r, q \in Reqs :
        /\ SuccessiveToggles(r, q) /\ req[r].op = "react"
        /\ req[r].body[1].reactions = << req[r].arg[1] >>
        /\ messages[IndexOfMessage(req[r].mid)].reactions = << >>
\* ------------------------------------------------------------ reads (C11..C20)
Ids(docs) == { docs[i].id : i \in 1 .. Len(docs) }
NonDecreasing(docs) ==
    \A i, j \in 1 .. Len(docs) : i < j => docs[i].timestamp <= docs[j].timestamp
FindSteps == { "get_find", "shared_find", "export_find" }
\* The step in which request r gets the answer of its find on the messages.
Fetches(r) == req[r].pc \in FindSteps /\ req'[r].pc # req[r].pc
ReturnsList(r) ==
    req[r].op \in { "get", "get_shared" }
    \/ (req[r].op = "export" /\ req[r].arg = << "json" >>)
\* The message list the handler holds after that step, which it returns.
Fetched(rec) == IF rec.pc = "get_suggest" THEN rec.lm ELSE rec.body[1].messages
NotFoundAnswer(r) == Done(r) /\ req[r].status = 404

\* C11: when get, get_shared or export (json) has read the messages, the list
\* it goes on to return holds each message of the conversation that is in
\* the store, once, and no other, in non-decreasing timestamp order, whatever
\* the order of the store.
ReadsReturnOwnedMessagesInOrder ==
    [][\A r \in DOMAIN req :
         (Fetches(r) /\ ReturnsList(r)) =>
            LET list == Fetched(req'[r])
                owned == MessagesIn(messages, req[r].cid)
            IN  /\ Len(list) = Len(owned)
                /\ Ids(list) = Ids(owned)
                /\ \A i \in 1 .. Len(list) : list[i].conversation_id = req[r].cid
                /\ NonDecreasing(list)]_vars

\* The step in which request r arrives and its handler runs to its first await.
Arrives(r) == req[r].pc = "idle" /\ req'[r].pc # "idle"
\* The entity the arriving request names is not in the store.
NamesAbsent(rec) ==
    \/ /\ rec.op \in { "get", "send", "end", "share", "export" }
       /\ ~Has(conversations, rec.cid)
    \/ /\ rec.op \in { "react", "bookmark" }
       /\ ~Has(messages, rec.mid)
    \/ /\ rec.op = "get_shared"
       /\ \A i \in ConvIndexes : conversations[i].share_token # Some(rec.token)

\* C12: a get, send, end, share or export naming a conversation that is not
\* in the store, a react or bookmark naming a message that is not, and a
\* shared read with a token no conversation carries are answered 404 at once,
\* and neither collection changes.
AbsentEntityNotFound ==
    [][\A r \in DOMAIN req :
         (Arrives(r) /\ NamesAbsent(req'[r])) =>
            /\ req'[r].pc = "done"
            /\ req'[r].status = 404
            /\ req'[r].body = None
            /\ conversations' = conversations
            /\ messages' = messages]_vars

\* A shared read with a token that is not in a store which holds a shared
\* conversation and its messages has been answered 404.
UnknownTokenNotFound ==
    \E r \in DOMAIN req :
        /\ NotFoundAnswer(r) /\ req[r].op = "get_shared" /\ req[r].token = 0
        /\ \E i \in ConvIndexes : conversations[i].share_token # None
        /\ messages # << >>

\* A step of an export_conversation call.
ExportSteps(r) == req'[r] # req[r] /\ req'[r].op = "export"

\* C13: an export of a conversation that is in the store is answered 400
\* when the format is none of json, markdown and pdf, and 200 with the
\* rendering when it is one of them, for an active and for an ended
\* conversation alike; no step of an export changes either collection.
ExportFormatDecides ==
    [][\A r \in DOMAIN req :
         ExportSteps(r) =>
            /\ conversations' = conversations
            /\ messages' = messages
            /\ (req'[r].pc = "done" /\ req'[r].saw \in { "active", "ended" }) =>
                  IF req'[r].arg[1] \in { "json", "markdown", "pdf" }
                  THEN req'[r].status = 200 /\ req'[r].body # None
                  ELSE req'[r].status = 400 /\ req'[r].body = None]_vars

\* An export in the format xml of an ended conversation with messages has
\* been answered 400.
XmlExportRejected ==
    \E r \in DOMAIN req :
        /\ Done(r) /\ req[r].op = "export" /\ req[r].arg = << "xml" >>
        /\ req[r].saw = "ended" /\ req[r].status = 400
        /\ find_messages(req[r].cid) # << >>

\* Request q came and went before request r arrived.
Precedes(q, r) == q < r /\ q \notin req[r].overlaps /\ req[q].pc # "idle"
Writers == { "create", "send", "end", "share", "react", "bookmark" }
\* No request that can write to the store ran between the arrival of the
\* first and the answer of the second of the reads g and s.
ReadTogether(g, s) ==
    \A q \in DOMAIN req \ { g, s } :
        (req[q].pc # "idle" /\ req[q].op \in Writers) =>
            \/ Precedes(q, g) /\ Precedes(q, s)
            \/ Precedes(g, q) /\ Precedes(s, q)

\* C14: a get of a shared conversation and a get_shared with its token, with
\* no writing request between them, return the same conversation record and
\* the same list of messages.
SharedReadEqualsDirectRead ==
    \A g, s \in DOMAIN req :
        ( /\ Done(g) /\ req[g].op = "get" /\ req[g].status = 200
          /\ Done(s) /\ req[s].op = "get_shared" /\ req[s].status = 200
          /\ req[s].cid = req[g].cid
          /\ ReadTogether(g, s) ) =>
            /\ req[s].body[1].conversation = req[g].body[1].conversation
            /\ req[s].body[1].messages = req[g].body[1].messages

\* Both reads of the shared conversation whose four messages the store keeps
\* out of timestamp order have been answered.
SharedAndDirectReadAnswered ==
    \E g, s \in DOMAIN req :
        /\ Done(g) /\ req[g].op = "get" /\ req[g].status = 200
        /\ Done(s) /\ req[s].op = "get_shared" /\ req[s].status = 200
        /\ req[s].cid = req[g].cid
        /\ req[s].body[1].conversation.share_token = Some(req[s].token)
        /\ Len(req[g].body[1].messages) = 4
        /\ [ i \in 1 .. 4 |-> messages[i].id ] = << 3, 2, 5, 4 >>

\* C15: a token a conversation carries (every token share has returned was
\* stored when it was returned) is carried by that conversation after every
\* step, so that get_shared resolves it from then on.
TokenNeverRevoked ==
    [][\A i \in ConvIndexes :
         conversations[i].share_token # None =>
            \E j \in 1 .. Len(conversations') :
                /\ conversations'[j].id = conversations[i].id
                /\ conversations'[j].share_token = conversations[i].share_token]_vars

\* No token is on two conversations, and a conversation has one token or none.
TokensDistinct ==
    \A i \in ConvIndexes :
        /\ Len(conversations[i].share_token) <= 1
        /\ \A j \in ConvIndexes :
             (i # j /\ conversations[i].share_token # None) =>
                conversations[j].share_token # conversations[i].share_token

\* C16: a share of a conversation that is in the store, active or ended, is
\* never rejected; the step that answers it puts on the conversation the
\* token it returns, a token that no conversation carried and no earlier
\* share returned, and changes nothing else in the store; at all times a
\* conversation has at most one token and no two conversations have the same.
ShareMintsAndOverwrites ==
    /\ []TokensDistinct
    /\ [][\A r \in DOMAIN req :
            /\ (Arrives(r) /\ req'[r].op = "share" /\ Has(conversations, req'[r].cid)) =>
                  req'[r].pc = "share_update"
            /\ (req[r].pc = "share_update" /\ req'[r] # req[r]) =>
                  LET token == req'[r].body[1].share_token
                      i == FirstIndex(conversations, req[r].cid)
                  IN  /\ req'[r].pc = "done" /\ req'[r].status = 200
                      /\ req'[r].saw \in { "active", "ended" }
                      /\ \A j \in ConvIndexes : conversations[j].share_token # Some(token)
                      /\ \A q \in DOMAIN req \ { r } :
                           (Done(q) /\ req[q].op = "share" /\ req[q].status = 200) =>
                              req[q].body[1].share_token # token
                      /\ conversations' =
                           [conversations EXCEPT ![i].share_token = Some(token)]
                      /\ messages' = messages]_vars

\* A share of an ended conversation that carried a token has been answered,
\* and the conversation now carries the new token.
EndedConversationReshared ==
    \E r \in DOMAIN req :
        /\ Done(r) /\ req[r].op = "share" /\ req[r].status = 200
        /\ req[r].saw = "ended"
        /\ \E i \in ConvIndexes :
             /\ conversations[i].id = req[r].cid
             /\ conversations[i].share_token = Some(req[r].body[1].share_token)
             /\ conversations[i].share_token # EndedStore.conversations[1].share_token
             /\ conversations[i].summary = EndedStore.conversations[1].summary

\* ----------------------------------------------------------------- queries
EndedInStore == SelectSeq(conversations, LAMBDA d : d.status = "ended")
QueryDone(r) == Done(r) /\ req[r].op = "query"
\* The first conversations of a list, five at most.
FirstFive(list) == [ i \in 1 .. (IF Len(list) < 5 THEN Len(list) ELSE 5) |-> list[i] ]

\* C17: a query that arrives when no conversation of the store is ended is
\* answered at once with the fixed text, no reference and no suggestion,
\* without a gateway call and without a change to the store, whatever active
\* conversations and messages the store holds.
QueryWithoutEndedConversations ==
    [][\A r \in DOMAIN req :
         (Arrives(r) /\ req'[r].op = "query" /\ EndedInStore = << >>) =>
            /\ req'[r].pc = "done" /\ req'[r].status = 200
            /\ req'[r].body =
                 Some([ answer |-> << "No past conversations found to analyze." >>,
                        relevant_conversations |-> << >>,
                        suggestions |-> << >> ])
            /\ req'[r].llm = 0
            /\ conversations' = conversations /\ messages' = messages]_vars

\* A query on a store with an active conversation and its messages and no
\* ended conversation has been answered with no reference.
QueryAnsweredNothingToAnalyze ==
    \E r \in DOMAIN req :
        /\ QueryDone(r) /\ req[r].status = 200 /\ req[r].llm = 0
        /\ req[r].body[1].relevant_conversations = << >>
        /\ \E i \in ConvIndexes : conversations[i].status = "active"
        /\ messages # << >>

\* C18, as the claim states it: a query whose gateway call failed is answered
\* 200 with a text describing the error and no reference.
FailedQueryReturnsNoReference ==
    \A r \in DOMAIN req :
        (QueryDone(r) /\ req[r].failed) =>
            /\ req[r].status = 200
            /\ req[r].body[1].answer[1] = "Error processing query: "
            /\ req[r].body[1].relevant_conversations = << >>

\* C18, amended: a query whose gateway call failed is answered 200 with a
\* text describing the error, and with the references a query whose call
\* succeeded returns: the first five, at most, of the ended conversations it
\* found.
FailedQueryReturnsErrorText ==
    \A r \in DOMAIN req :
        (QueryDone(r) /\ req[r].failed) =>
            /\ req[r].status = 200
            /\ req[r].body[1].answer =
                 << "Error processing query: ", "gateway unreachable" >>
            /\ req[r].lm # << >>
            /\ req[r].body[1].relevant_conversations = FirstFive(req[r].lm)
            /\ req[r].body[1].suggestions = << >>

\* A query whose gateway call failed has been answered with five of the six
\* ended conversations of the store.
FailedQueryAnswered ==
    \E r \in DOMAIN req :
        /\ QueryDone(r) /\ req[r].failed /\ req[r].status = 200
        /\ Len(EndedInStore) = 6
        /\ Len(req[r].body[1].relevant_conversations) = 5

\* C19: a query reads the ended conversations of the store, in store order
\* (n of them, n at most ToListLength), and does not write; a query answered
\* after a gateway call that succeeded returns the first min(5, n) of them
\* and nothing else as references, none of them active, and no suggestion.
QueryReturnsFirstFiveEnded ==
    [][\A r \in DOMAIN req :
         (req'[r] # req[r] /\ req'[r].op = "query") =>
            /\ conversations' = conversations /\ messages' = messages
            /\ (Arrives(r) /\ EndedInStore # << >>) =>
                  /\ Len(EndedInStore) <= ToListLength
                  /\ req'[r].pc = "query_llm" /\ req'[r].lm = EndedInStore
            /\ (req[r].pc = "query_llm" /\ ~req'[r].failed) =>
                  LET refs == req'[r].body[1].relevant_conversations
                      n == Len(req[r].lm)
                  IN  /\ req'[r].pc = "done" /\ req'[r].status = 200
                      /\ Len(refs) = (IF n < 5 THEN n ELSE 5)
                      /\ \A i \in 1 .. Len(refs) :
                           refs[i] = req[r].lm[i] /\ refs[i].status = "ended"
                      /\ req'[r].body[1].suggestions = << >>]_vars

\* A query whose gateway call succeeded has been answered with the first
\* five of the six ended conversations of the store.
QueryAnsweredWithFive ==
    \E r \in DOMAIN req :
        /\ QueryDone(r) /\ ~req[r].failed /\ req[r].status = 200 /\ req[r].llm = 1
        /\ Len(EndedInStore) = 6
        /\ req[r].body[1].relevant_conversations = SubSeq(EndedInStore, 1, 5)

SendPromptsWithOwnUserTurn ==
    \A r \in DOMAIN req :
        req[r].op = "send" /\ req[r].pc = "send_llm" =>
           /\ req[r].lm # << >>
           /\ req[r].lm[Len(req[r].lm)].role = "user"
           /\ call_llm_prompt(req[r].lm) = req[r].arg
           /\ call_llm_prompt(req[r].lm) # << >>

\* The toggles on message mid that have been answered 200, and those still
\* in flight.
TogglesDone(mid) ==
    { r \in DOMAIN req : /\ req[r].op \in { "react", "bookmark" } /\ req[r].mid = mid
                         /\ Done(r) /\ req[r].status = 200 }
TogglesInFlight(mid) ==
    { r \in DOMAIN req : /\ req[r].op \in { "react", "bookmark" } /\ req[r].mid = mid
                         /\ ~Done(r) /\ req[r].pc # "idle" }
Odd(n) == n % 2 = 1

\* C22: once every toggle on a message is answered, the message is as if
\* the toggles had been applied one at a time: a symbol is among its
\* reactions exactly when an odd number of react calls named it, and it is
\* bookmarked exactly when an odd number of bookmark calls were made (every
\* message starts with no reaction and not bookmarked, and toggles of
\* distinct symbols and of the flag commute, so every order gives this).
TogglesAsIfOneAtATime ==
    \A i \in 1 .. Len(messages) :
        TogglesInFlight(messages[i].id) = {} =>
           LET done == TogglesDone(messages[i].id)
           IN  /\ Elements(messages[i].reactions) =
                     { s \in Symbols :
                         Odd(Cardinality({ r \in done : req[r].op = "react"
                                                         /\ req[r].arg = << s >> })) }
               /\ messages[i].bookmarked =
                     Odd(Cardinality({ r \in done : req[r].op = "bookmark" }))

\* The fields of a message that are fixed when it is created.
Created(msg) ==
    << msg.id, msg.conversation_id, msg.role, msg.content, msg.timestamp >>

\* Request r takes a step of the given toggle.
ToggleStep(r, op) == req'[r] # req[r] /\ req'[r].op = op

NoSymbolTwice ==
    \A i \in 1 .. Len(messages) :
        Cardinality(Elements(messages[i].reactions)) = Len(messages[i].reactions)

\* C23: every step keeps every stored message, in its place, with its id,
\* conversation, role, content and timestamp; a step of react_to_message
\* changes at most the reactions of the message it names, a step of
\* bookmark_message at most the bookmarked flag of the message it names,
\* and neither changes a conversation or the number of messages; and no
\* message ever carries a symbol twice in its reactions.
MessagesAppendOnly ==
    /\ []NoSymbolTwice
    /\ [][/\ Len(messages') >= Len(messages)
          /\ \A i \in 1 .. Len(messages) : Created(messages'[i]) = Created(messages[i])
          /\ \A r \in DOMAIN req :
               /\ ToggleStep(r, "react") =>
                     /\ conversations' = conversations
                     /\ Len(messages') = Len(messages)
                     /\ \A i \in 1 .. Len(messages) :
                          /\ messages'[i].bookmarked = messages[i].bookmarked
                          /\ messages'[i] # messages[i] =>
                                messages[i].id = req'[r].mid
               /\ ToggleStep(r, "bookmark") =>
                     /\ conversations' = conversations
                     /\ Len(messages') = Len(messages)
                     /\ \A i \in 1 .. Len(messages) :
                          /\ messages'[i].reactions = messages[i].reactions
                          /\ messages'[i] # messages[i] =>
                                messages[i].id = req'[r].mid]_vars

\* A react and a bookmark on the same message have both been answered 200,
\* and the message carries the symbol and the flag while the other message
\* of the conversation carries neither.
MessageReactedAndBookmarked ==
    \E r, q \in DOMAIN req : \E i, j \in 1 .. Len(messages) :
        /\ req[r].op = "react" /\ Done(r) /\ req[r].status = 200
        /\ req[q].op = "bookmark" /\ Done(q) /\ req[q].status = 200
        /\ req[q].mid = req[r].mid /\ messages[i].id = req[r].mid
        /\ messages[i].reactions = req[r].arg /\ messages[i].bookmarked
        /\ i # j /\ messages[j].reactions = << >> /\ ~messages[j].bookmarked

\* The lines of a text, and a line that has a character other than a blank.
Lines(text) == split(text, "\n")
Inked(line) == \E i \in 1 .. Len(line) : line[i] # " "

\* A generate_suggestions call that has returned.
Suggested(r) == req[r].op = "suggest" /\ Done(r)

\* What holds of every generate_suggestions call whatever the parse: it
\* returns, with at most 3 entries; with an empty history, the three default
\* prompts and no gateway call; else one gateway call whose prompt quotes
\* the last 3 turns at most; the empty list when the gateway raised; and a
\* get_conversation whose suggestion call failed is answered 200 with its
\* conversation, its messages and no suggestion.
SuggestionsSoftFail ==
    \A r \in DOMAIN req :
        /\ Suggested(r) =>
              /\ req[r].status = 200
              /\ Len(req[r].body[1]) <= 3
              /\ IF req[r].lm = << >>
                 THEN /\ req[r].llm = 0
                      /\ req[r].body[1] =
                            << << "Tell me about yourself" >>,
                               << "What can you help me with?" >>,
                               << "Explain a complex topic simply" >> >>
                 ELSE /\ req[r].llm = 1
                      /\ LET n == Len(req[r].lm)
                             from == IF n > 3 THEN n - 2 ELSE 1
                         IN  req[r].text =
                                << "Recent conversation:\n" >>
                                \o conversation_text(SubSeq(req[r].lm, from, n))
                                \o << "\n\nGenerate 3 relevant follow-up questions:" >>
                      /\ req[r].failed => req[r].body[1] = << >>
        /\ (req[r].op = "get" /\ Done(r) /\ req[r].failed) =>
              /\ req[r].status = 200
              /\ req[r].body[1].suggestions = << >>
              /\ req[r].body[1].messages # << >>

\* C24 as stated: beyond the above, the suggestions returned for a gateway
\* text are the first 3 at most of the lines of that text that are not blank
\* and do not begin with '#'.
SuggestionsAreResponseLines ==
    /\ SuggestionsSoftFail
    /\ \A r \in DOMAIN req :
         (Suggested(r) /\ req[r].heard # None) =>
            req[r].body[1] =
               first_n(SelectSeq(Lines(req[r].heard[1]),
                                 LAMBDA line : Inked(line) /\ line[1] # "#"), 3)

\* C24: beyond the above, the suggestions returned for a gateway text are
\* the first 3 at most, in the order of the text, of its lines taken without
\* the white space at their two ends, leaving out the lines that are then
\* empty or begin with '#'.
SuggestionsAreTrimmedLines ==
    /\ SuggestionsSoftFail
    /\ \A r \in DOMAIN req :
         (Suggested(r) /\ req[r].heard # None) =>
            LET lines == Lines(req[r].heard[1])
                kept == { i \in 1 .. Len(lines) :
                            Inked(lines[i]) /\ strip(lines[i])[1] # "#" }
                taken == { i \in kept : Cardinality({ j \in kept : j < i }) < 3 }
            IN  /\ Len(req[r].body[1]) = Cardinality(taken)
                /\ \A i \in taken :
                     req[r].body[1][Cardinality({ j \in kept : j < i }) + 1]
                        = strip(lines[i])

\* A call with a history of four turns whose gateway answered seven lines,
\* padded, blank and commented ones among them, has returned three.
ThreeSuggestionsFromPaddedLines ==
    \E r \in DOMAIN req :
        /\ Suggested(r) /\ Len(req[r].lm) = 4 /\ req[r].heard # None
        /\ Len(Lines(req[r].heard[1])) = 7
        /\ req[r].body[1] = << << "A", "?" >>, << "B", "?" >>, << "C", "?" >> >>

====
